---- MODULE Spec2Model ----
(***************************************************************************)
(* Inventory ledger of the medical-shop service: the Inventory collection, *)
(* the mongoose document methods and hooks of the Inventory model, the     *)
(* REST controllers that write lots and the order-event handlers.          *)
(*                                                                         *)
(* A request or an event handler is a process that reads a lot into a      *)
(* local mongoose document, changes it in memory and saves it; reads and   *)
(* saves of different processes interleave at the database.  A save        *)
(* validates the document, runs the pre-save hook and writes the modified  *)
(* paths only ($set of the changed scalars, $push of the new movements).   *)
(***************************************************************************)
EXTENDS Integers, Sequences, FiniteSets, TLC

\* ---------------------------------------------------------------- bounds
MaxQty == 3        \* largest on-hand quantity a request may lead to
MaxItemQty == 2    \* largest quantity of a line item / movement request
MaxItems == 2      \* most items in one order event / bulk update
MaxMoves == 1      \* most recorded movements per lot
MaxNow == 2        \* the clock runs 1..MaxNow
MaxRaceMoves == 2  \* most recorded movements per lot when movements race
MaxTopic == 2      \* most order events waiting in the topic

\* ------------------------------------------------------------ input sets
Procs == {1, 2}
Shops == {1}
Medicines == {1, 2}
Batches == {1, 2}
MaxLots == Cardinality(Medicines) * Cardinality(Batches)
ExpiryDates == {1}
ThresholdInputs == {1}
UserIds == {"user1"}

\* schema enums
StatusEnum == {"active", "expired", "damaged", "returned", "low-stock"}
MovementTypeEnum == {"in", "out", "adjustment", "return"}
ReasonEnum == {"purchase", "sale", "damage", "expiry", "correction", "transfer"}
\* request validators
RestMovementTypes == {"in", "out", "adjustment"}
RestStatusEnum == {"active", "expired", "damaged", "returned"}
PutStatusInputs == {"active", "damaged"}

\* what requests and events may carry
MovementTypeInputs == MovementTypeEnum
ReasonInputs == {"sale"}
OrderKinds == {"order.placed", "order.confirmed", "order.cancelled", "order.delivered"}

Max(a, b) == IF a >= b THEN a ELSE b

\* ------------------------------------------------------------------ lots
\* A stored movement entry.
Movement(type, quantity, reason, performedBy) ==
  [type |-> type, quantity |-> quantity, reason |-> reason, performedBy |-> performedBy]

\* A local mongoose document: the scalar paths of a lot (id 0: no document).
NoDoc ==
  [id |-> 0, shopId |-> 0, medicineId |-> 0, batchNumber |-> 0, quantity |-> 0,
   reservedQuantity |-> 0, availableQuantity |-> 0, status |-> "active",
   lowStockThreshold |-> 0, expiryDate |-> 0]

\* The scalar paths of the stored lot number id.
DocOf(st, id) ==
  [id |-> id, shopId |-> st[id].shopId, medicineId |-> st[id].medicineId,
   batchNumber |-> st[id].batchNumber, quantity |-> st[id].quantity,
   reservedQuantity |-> st[id].reservedQuantity,
   availableQuantity |-> st[id].availableQuantity, status |-> st[id].status,
   lowStockThreshold |-> st[id].lowStockThreshold, expiryDate |-> st[id].expiryDate]

\* Inventory.findOne({shopId, medicineId, batchNumber}): the first match, or 0.
Matches(st, shopId, medicineId, batchNumber) ==
  {i \in 1 .. Len(st) : st[i].shopId = shopId /\ st[i].medicineId = medicineId
                        /\ st[i].batchNumber = batchNumber}

FirstOf(S) == IF S = {} THEN 0 ELSE CHOOSE i \in S : \A j \in S : i <= j

findOne(st, shopId, medicineId, batchNumber) ==
  FirstOf(Matches(st, shopId, medicineId, batchNumber))

\* Inventory.findById(id): id when the lot exists, or 0.
findById(st, id) == IF id \in 1 .. Len(st) THEN id ELSE 0

\* ----------------------------------------------------- document methods
isLowStock(doc) == doc.availableQuantity <= doc.lowStockThreshold

isExpired(doc, t) == t > doc.expiryDate

\* Inventory.findLowStockItems(shopId): the lots the query returns.
findLowStockItems(st, shopId) ==
  {i \in 1 .. Len(st) : st[i].shopId = shopId /\ st[i].status \in {"active", "low-stock"}}

\* The quantity branch with an out movement clamped at zero.
MovedQuantityClamped(type, onHand, quantity) ==
  IF type = "in" THEN onHand + quantity
  ELSE IF type = "out" THEN Max(0, onHand - quantity)
  ELSE IF type = "adjustment" THEN quantity
  ELSE onHand

\* The quantity branch of addStockMovement.
MovedQuantity(type, onHand, quantity) ==
  IF type = "in" THEN onHand + quantity
  ELSE IF type = "out" THEN onHand - quantity
  ELSE IF type = "adjustment" THEN quantity
  ELSE onHand

\* The status branch of addStockMovement.
MovedStatus(doc, t) ==
  IF isExpired(doc, t) THEN "expired"
  ELSE IF doc.quantity = 0 THEN "out-of-stock"
  ELSE IF isLowStock(doc) THEN "low-stock"
  ELSE "active"

\* addStockMovement up to its save: the document as changed in memory.
addStockMovement(doc, type, quantity, t) ==
  LET d1 == [doc EXCEPT !.quantity = MovedQuantity(type, doc.quantity, quantity)]
      d2 == [d1 EXCEPT !.availableQuantity = Max(0, d1.quantity - d1.reservedQuantity)]
  IN  [d2 EXCEPT !.status = MovedStatus(d2, t)]

\* ------------------------------------------------------------------ save
\* The scalar validators without the min: 0 of quantity and reservedQuantity.
DocErrorsNoMin(doc) ==
  {m \in {"Available quantity cannot be negative", "status is not a valid enum value",
          "Low stock threshold cannot be negative"} :
     \/ m = "Available quantity cannot be negative" /\ doc.availableQuantity < 0
     \/ m = "status is not a valid enum value" /\ doc.status \notin StatusEnum
     \/ m = "Low stock threshold cannot be negative" /\ doc.lowStockThreshold < 0}

\* Schema validators of the scalar paths: the messages of those that fail.
DocErrors(doc) ==
  {m \in {"Quantity cannot be negative", "Reserved quantity cannot be negative",
          "Available quantity cannot be negative", "status is not a valid enum value",
          "Low stock threshold cannot be negative"} :
     \/ m = "Quantity cannot be negative" /\ doc.quantity < 0
     \/ m = "Reserved quantity cannot be negative" /\ doc.reservedQuantity < 0
     \/ m = "Available quantity cannot be negative" /\ doc.availableQuantity < 0
     \/ m = "status is not a valid enum value" /\ doc.status \notin StatusEnum
     \/ m = "Low stock threshold cannot be negative" /\ doc.lowStockThreshold < 0}

\* Schema validators of a pushed movement entry.
MovementErrors(m) ==
  {e \in {"type is not a valid enum value", "reason is not a valid enum value",
          "performedBy: Cast to ObjectId failed"} :
     \/ e = "type is not a valid enum value" /\ m.type \notin MovementTypeEnum
     \/ e = "reason is not a valid enum value" /\ m.reason \notin ReasonEnum
     \/ e = "performedBy: Cast to ObjectId failed" /\ m.performedBy \notin UserIds}

\* What the validation of a save reports: nothing when the document is valid.
ValidationErrors(doc, pushes) ==
  DocErrors(doc) \cup UNION {MovementErrors(pushes[i]) : i \in 1 .. Len(pushes)}

\* The pre-save hook.
preSave(doc) ==
  [doc EXCEPT !.availableQuantity = Max(0, doc.quantity - doc.reservedQuantity)]

\* The write of a save: $set of the paths that differ from the document as
\* it was loaded (or last saved), $push of the new movements.
WriteDelta(lot, base, doc, pushes) ==
  [lot EXCEPT
     !.quantity = IF doc.quantity # base.quantity THEN doc.quantity ELSE @,
     !.reservedQuantity =
        IF doc.reservedQuantity # base.reservedQuantity THEN doc.reservedQuantity ELSE @,
     !.availableQuantity =
        IF doc.availableQuantity # base.availableQuantity THEN doc.availableQuantity ELSE @,
     !.status = IF doc.status # base.status THEN doc.status ELSE @,
     !.lowStockThreshold =
        IF doc.lowStockThreshold # base.lowStockThreshold THEN doc.lowStockThreshold ELSE @,
     !.stockMovements = @ \o pushes]

\* doc.save() of an existing lot: validation, then the pre-save hook, then
\* the write.  base is the document as loaded, doc the document as changed.
Save(st, base, doc, pushes) ==
  IF ValidationErrors(doc, pushes) = {}
  THEN [ok |-> TRUE, errors |-> {}, doc |-> preSave(doc),
        store |-> [st EXCEPT ![doc.id] = WriteDelta(@, base, preSave(doc), pushes)]]
  ELSE [ok |-> FALSE, errors |-> ValidationErrors(doc, pushes), doc |-> doc, store |-> st]

\* ------------------------------------------------------------- processes
VARIABLES
  store,     \* the Inventory collection: the stored lots in insertion order
  now,       \* the clock new Date() reads
  procs,     \* the requests and event handlers in progress
  response,  \* the response the last step sent to a REST caller, if it sent one
  consumer   \* the order-events consumer: its topic and the message it handles

vars == <<store, now, procs, response, consumer>>

\* An item of an order event.
Item(medicineId, batchNumber, quantity) ==
  [medicineId |-> medicineId, batchNumber |-> batchNumber, quantity |-> quantity]

ItemInputs(M) ==
  {Item(m, b, q) : m \in M, b \in Batches, q \in 1 .. MaxItemQty}

\* The item lists of 1 .. MaxItems items over the medicines M, in the order of
\* the medicines.
ItemLists(M) ==
  UNION {{s \in [1 .. n -> ItemInputs(M)] :
            \A i, j \in 1 .. n : i < j => s[i].medicineId < s[j].medicineId}
         : n \in 1 .. MaxItems}

\* A request or handler not in progress.  successful and failed are the
\* results of a bulk update: the positions of the items dealt with so far.
IdleProc ==
  [op |-> "idle", pc |-> "", kind |-> "", id |-> 0, qty |-> 0, reason |-> "",
   items |-> <<>>, idx |-> 0, doc |-> NoDoc, successful |-> <<>>, failed |-> <<>>]

Response(status, message) == [status |-> status, message |-> message, errors |-> {}]

\* The error middleware's answer to a mongoose ValidationError.
ValidationFailure(errors) ==
  [status |-> 400, message |-> "Validation Error", errors |-> errors]

NoResponse == Response(0, "")

\* The loop of a handler moves on to its next item, or the handler returns.
NextItem(pr) ==
  IF pr.idx < Len(pr.items)
  THEN [pr EXCEPT !.idx = @ + 1, !.pc = "read", !.doc = NoDoc]
  ELSE IdleProc

\* The consumer before any message: topic holds the messages published and
\* not yet committed, inflight says that eachMessage is awaiting the handler,
\* outcome what became of an error raised while the message was handled.
IdleConsumer == [topic |-> <<>>, inflight |-> FALSE, outcome |-> "none"]

Init ==
  /\ store = <<>>
  /\ now = 1
  /\ procs = [p \in Procs |-> IdleProc]
  /\ response = NoResponse
  /\ consumer = IdleConsumer

\* The clock advances.
Tick ==
  /\ now < MaxNow
  /\ now' = now + 1
  /\ response' = NoResponse
  /\ UNCHANGED <<store, procs, consumer>>

\* ---------------------------------------------------------------- Create
\* POST /inventory arrives: the request body becomes inventoryData.
StartCreate(p, M) ==
  /\ procs[p].op = "idle"
  /\ \E m \in M, b \in Batches, q \in 0 .. MaxQty,
        e \in ExpiryDates, th \in ThresholdInputs :
       procs' = [procs EXCEPT ![p] =
         [IdleProc EXCEPT !.op = "create", !.pc = "check",
            !.doc = [NoDoc EXCEPT !.shopId = 1, !.medicineId = m, !.batchNumber = b,
                       !.quantity = q, !.expiryDate = e, !.lowStockThreshold = th]]]
  /\ response' = NoResponse
  /\ UNCHANGED <<store, now, consumer>>

\* addInventoryItem: the findOne that looks for the triple.
CreateCheck(p) ==
  /\ procs[p].op = "create" /\ procs[p].pc = "check"
  /\ LET d == procs[p].doc IN
       IF findOne(store, d.shopId, d.medicineId, d.batchNumber) # 0
       THEN /\ procs' = [procs EXCEPT ![p] = IdleProc]
            /\ response' = Response(400, "already exists for this medicine")
       ELSE /\ procs' = [procs EXCEPT ![p].pc = "insert"]
            /\ response' = NoResponse
  /\ UNCHANGED <<store, now, consumer>>

\* No unique index on the collection.
NoUniqueIndex(st, doc) == TRUE

\* The unique index {shopId: 1, medicineId: 1} admits the new document.
UniqueIndexOk(st, doc) ==
  \A i \in 1 .. Len(st) :
    ~(st[i].shopId = doc.shopId /\ st[i].medicineId = doc.medicineId)

\* The stored lot Inventory.create makes of inventoryData.
NewLot(doc) ==
  [shopId |-> doc.shopId, medicineId |-> doc.medicineId,
   batchNumber |-> doc.batchNumber, quantity |-> doc.quantity,
   reservedQuantity |-> doc.reservedQuantity,
   availableQuantity |-> preSave(doc).availableQuantity, status |-> doc.status,
   lowStockThreshold |-> doc.lowStockThreshold, expiryDate |-> doc.expiryDate,
   stockMovements |-> <<>>]

\* addInventoryItem: Inventory.create(inventoryData).
CreateInsert(p) ==
  /\ procs[p].op = "create" /\ procs[p].pc = "insert"
  /\ Len(store) < MaxLots
  /\ LET d == procs[p].doc IN
       IF DocErrors(d) # {}
       THEN /\ response' = ValidationFailure(DocErrors(d))
            /\ UNCHANGED store
       ELSE IF ~UniqueIndexOk(store, d)
       THEN /\ response' = Response(400, "shopId already exists")
            /\ UNCHANGED store
       ELSE /\ store' = Append(store, NewLot(d))
            /\ response' = Response(201, "Inventory item added successfully")
  /\ procs' = [procs EXCEPT ![p] = IdleProc]
  /\ UNCHANGED <<now, consumer>>

\* ------------------------------------------------- PUT /inventory/:id
\* updateInventoryItem: findByIdAndUpdate(id, body, {runValidators}) sets the
\* paths of the body and runs no save hook.  quantity -1 and status "" stand
\* for a path the body does not carry.  The route's validate parses the body
\* with updateInventorySchema and passes the body itself on, so a key the
\* schema does not list reaches the update: stockMovements "empty" is a body
\* that carries stockMovements: [], "absent" one that does not carry it.
PutMovementInputs == {"absent", "empty"}

PutBodies ==
  {b \in [quantity : {-1} \cup (0 .. MaxQty), status : {""} \cup PutStatusInputs,
          stockMovements : PutMovementInputs] :
     b.quantity # -1 \/ b.status # "" \/ b.stockMovements # "absent"}

UpdatedLot(lot, body) ==
  [lot EXCEPT !.quantity = IF body.quantity # -1 THEN body.quantity ELSE @,
              !.status = IF body.status # "" THEN body.status ELSE @,
              !.stockMovements = IF body.stockMovements = "empty" THEN <<>> ELSE @]

updateInventoryItem(p) ==
  /\ procs[p].op = "idle"
  /\ \E id \in 1 .. MaxLots, body \in PutBodies :
       IF findById(store, id) = 0
       THEN /\ response' = Response(404, "Inventory item not found")
            /\ UNCHANGED store
       ELSE /\ store' = [store EXCEPT ![id] = UpdatedLot(@, body)]
            /\ response' = Response(200, "Inventory item updated successfully")
  /\ UNCHANGED <<now, procs, consumer>>

\* --------------------------------------- POST /inventory/:id/movement
\* The request arrives; stockMovementSchema rejects a type it does not list.
StartMovement(p) ==
  /\ procs[p].op = "idle"
  /\ \E id \in 1 .. MaxLots, ty \in MovementTypeInputs,
        q \in 1 .. MaxItemQty, r \in ReasonInputs :
       IF ty \notin RestMovementTypes \/ r \notin ReasonEnum
       THEN /\ response' = Response(400, "Validation failed")
            /\ UNCHANGED procs
       ELSE /\ procs' = [procs EXCEPT ![p] =
                 [IdleProc EXCEPT !.op = "movement", !.pc = "read", !.id = id,
                                  !.kind = ty, !.qty = q, !.reason = r]]
            /\ response' = NoResponse
  /\ UNCHANGED <<store, now, consumer>>

\* The movements of lot id already recorded or about to be by another request.
MovesDue(id) ==
  Len(store[id].stockMovements)
    + Cardinality({q \in Procs : procs[q].op = "movement" /\ procs[q].pc = "save"
                                 /\ procs[q].doc.id = id})

\* addStockMovement (controller): Inventory.findById, while the lot's trail
\* has room for fewer than n movements.
MovementReadWithin(p, n) ==
  /\ procs[p].op = "movement" /\ procs[p].pc = "read"
  /\ LET id == findById(store, procs[p].id) IN
       IF id = 0
       THEN /\ procs' = [procs EXCEPT ![p] = IdleProc]
            /\ response' = Response(404, "Inventory item not found")
       ELSE /\ MovesDue(id) < n
            /\ procs[p].kind = "in" => store[id].quantity + procs[p].qty <= MaxQty
            /\ procs' = [procs EXCEPT ![p].doc = DocOf(store, id), ![p].pc = "save"]
            /\ response' = NoResponse
  /\ UNCHANGED <<store, now, consumer>>

MovementRead(p) == MovementReadWithin(p, MaxMoves)

\* addStockMovement (controller): inventory.addStockMovement(...) and its save.
MovementSave(p) ==
  /\ procs[p].op = "movement" /\ procs[p].pc = "save"
  /\ LET pr == procs[p]
         r == Save(store, pr.doc, addStockMovement(pr.doc, pr.kind, pr.qty, now),
                   <<Movement(pr.kind, pr.qty, pr.reason, "user1")>>)
     IN  /\ store' = r.store
         /\ response' = IF r.ok THEN Response(200, "Stock movement recorded successfully")
                        ELSE ValidationFailure(r.errors)
  /\ procs' = [procs EXCEPT ![p] = IdleProc]
  /\ UNCHANGED <<now, consumer>>

\* ------------------------------------------- PUT /inventory/:id/alerts
StartAlertSettings(p) ==
  /\ procs[p].op = "idle"
  /\ \E id \in 1 .. MaxLots, th \in ThresholdInputs :
       procs' = [procs EXCEPT ![p] =
         [IdleProc EXCEPT !.op = "alerts", !.pc = "read", !.id = id, !.qty = th]]
  /\ response' = NoResponse
  /\ UNCHANGED <<store, now, consumer>>

\* updateAlertSettings: Inventory.findById.
AlertSettingsRead(p) ==
  /\ procs[p].op = "alerts" /\ procs[p].pc = "read"
  /\ LET id == findById(store, procs[p].id) IN
       IF id = 0
       THEN /\ procs' = [procs EXCEPT ![p] = IdleProc]
            /\ response' = Response(404, "Inventory item not found")
       ELSE /\ procs' = [procs EXCEPT ![p].doc = DocOf(store, id), ![p].pc = "save"]
            /\ response' = NoResponse
  /\ UNCHANGED <<store, now, consumer>>

\* updateAlertSettings: the threshold is set and the document saved.
AlertSettingsSave(p) ==
  /\ procs[p].op = "alerts" /\ procs[p].pc = "save"
  /\ LET pr == procs[p]
         r == Save(store, pr.doc, [pr.doc EXCEPT !.lowStockThreshold = pr.qty], <<>>)
     IN  /\ store' = r.store
         /\ response' = IF r.ok THEN Response(200, "Alert settings updated successfully")
                        ELSE ValidationFailure(r.errors)
  /\ procs' = [procs EXCEPT ![p] = IdleProc]
  /\ UNCHANGED <<now, consumer>>

\* --------------------------------------- POST /inventory/bulk-update
\* An item of a bulk update.  The route's validate passes the body on
\* unstripped, so an item can carry a key bulkInventoryUpdateSchema does not
\* list: status "out-of-stock" is an item that carries that status, "" one
\* that carries none.
BulkStatusInputs == {"", "out-of-stock"}

BulkItem(medicineId, batchNumber, quantity, status) ==
  [medicineId |-> medicineId, batchNumber |-> batchNumber, quantity |-> quantity,
   status |-> status]

BulkItemInputs(M) ==
  {BulkItem(m, b, q, st) : m \in M, b \in Batches, q \in 1 .. MaxItemQty,
                           st \in BulkStatusInputs}

BulkItemLists(M) ==
  UNION {{s \in [1 .. n -> BulkItemInputs(M)] :
            \A i, j \in 1 .. n : i < j => s[i].medicineId < s[j].medicineId}
         : n \in 1 .. MaxItems}

StartBulkUpdate(p, M) ==
  /\ procs[p].op = "idle"
  /\ \E items \in BulkItemLists(M) :
       procs' = [procs EXCEPT ![p] =
         [IdleProc EXCEPT !.op = "bulk", !.pc = "read", !.items = items, !.idx = 1]]
  /\ response' = NoResponse
  /\ UNCHANGED <<store, now, consumer>>

\* Object.assign(inventory, item).
Assigned(doc, item) ==
  [doc EXCEPT !.quantity = item.quantity,
              !.status = IF item.status # "" THEN item.status ELSE @]

\* results.successful.push of the current item.
BulkSucceeded(pr) == [pr EXCEPT !.successful = Append(@, pr.idx)]

\* A failed item ends the loop.
BulkFailedEndsLoop(pr) ==
  [pr EXCEPT !.failed = Append(@, pr.idx), !.idx = Len(pr.items)]

\* results.failed.push of the current item; the loop goes on.
BulkFailed(pr) == [pr EXCEPT !.failed = Append(@, pr.idx)]

\* The response of bulkUpdateInventory once the loop is over: pr is the
\* request with the result of its current item recorded.
BulkResponse(pr) ==
  IF pr.idx < Len(pr.items) THEN NoResponse
  ELSE [status |-> 200, message |-> "Bulk update completed", errors |-> {},
        data |-> [successful |-> pr.successful, failed |-> pr.failed]]

\* bulkUpdateInventory: the findOne of the current item.
BulkRead(p) ==
  /\ procs[p].op = "bulk" /\ procs[p].pc = "read"
  /\ LET pr == procs[p]
         it == pr.items[pr.idx]
         id == findOne(store, 1, it.medicineId, it.batchNumber)
     IN  IF id = 0
         THEN /\ procs' = [procs EXCEPT ![p] = NextItem(BulkFailed(pr))]
              /\ response' = BulkResponse(BulkFailed(pr))
         ELSE /\ procs' = [procs EXCEPT ![p] =
                   [pr EXCEPT !.doc = DocOf(store, id), !.pc = "save"]]
              /\ response' = NoResponse
  /\ UNCHANGED <<store, now, consumer>>

\* bulkUpdateInventory: Object.assign(inventory, item) and the save.
BulkSave(p) ==
  /\ procs[p].op = "bulk" /\ procs[p].pc = "save"
  /\ LET pr == procs[p]
         it == pr.items[pr.idx]
         r == Save(store, pr.doc, Assigned(pr.doc, it), <<>>)
         rec == IF r.ok THEN BulkSucceeded(pr) ELSE BulkFailed(pr)
     IN  /\ store' = r.store
         /\ procs' = [procs EXCEPT ![p] = NextItem(rec)]
         /\ response' = BulkResponse(rec)
  /\ UNCHANGED <<now, consumer>>

\* ------------------------------------------------------- order events
\* An order event as delivered to handleOrderEvents.
OrderEvent(kind, items) == [type |-> kind, items |-> items]

OrderEvents(M) == {OrderEvent(k, items) : k \in OrderKinds, items \in ItemLists(M)}

\* handleOrderEvents dispatches the event: the handler starts its loop.
HandlerOf(ev) ==
  [IdleProc EXCEPT !.op = "event", !.pc = "read", !.kind = ev.type,
                   !.items = ev.items, !.idx = 1]

\* The stock check made on the on-hand quantity.
SufficientOnHand(doc, quantity) == ~(doc.quantity < quantity)

\* handleOrderPlaced: the stock check on the document just read.
SufficientStock(doc, quantity) == ~(doc.availableQuantity < quantity)

\* The read with a delivered item taken on to a save like any other.
EventReadDeliveredSaves(st, pr) ==
  LET it == pr.items[pr.idx]
      id == findOne(st, 1, it.medicineId, it.batchNumber)
  IN  IF id = 0 THEN NextItem(pr)
      ELSE IF pr.kind = "order.placed" /\ ~SufficientStock(DocOf(st, id), it.quantity)
      THEN NextItem(pr)
      ELSE [pr EXCEPT !.doc = DocOf(st, id), !.pc = "save"]

\* The findOne of the current item and what the handler decides on it.
EventRead(st, pr) ==
  LET it == pr.items[pr.idx]
      id == findOne(st, 1, it.medicineId, it.batchNumber)
  IN  IF pr.kind = "order.delivered" THEN NextItem(pr)
      ELSE IF id = 0 THEN NextItem(pr)
      ELSE IF pr.kind = "order.placed" /\ ~SufficientStock(DocOf(st, id), it.quantity)
      THEN NextItem(pr)
      ELSE [pr EXCEPT !.doc = DocOf(st, id), !.pc = "save"]

\* The change each handler makes to the document before its first save.
Reserved(doc, quantity) ==
  [doc EXCEPT !.reservedQuantity = @ + quantity]

\* The deduction with the reservation clamped at zero.
ConfirmedClamped(doc, quantity) ==
  LET d == [doc EXCEPT !.reservedQuantity = Max(0, @ - quantity), !.quantity = @ - quantity]
  IN  [d EXCEPT !.availableQuantity = Max(0, d.quantity - d.reservedQuantity)]

\* handleOrderConfirmed: the deduction from reserved and on-hand.
Confirmed(doc, quantity) ==
  LET d == [doc EXCEPT !.reservedQuantity = @ - quantity, !.quantity = @ - quantity]
  IN  [d EXCEPT !.availableQuantity = Max(0, d.quantity - d.reservedQuantity)]

Released(doc, quantity) ==
  LET d == [doc EXCEPT !.reservedQuantity = Max(0, @ - quantity)]
  IN  [d EXCEPT !.availableQuantity = Max(0, d.quantity - d.reservedQuantity)]

EventChange(kind, doc, quantity) ==
  IF kind = "order.placed" THEN Reserved(doc, quantity)
  ELSE IF kind = "order.confirmed" THEN Confirmed(doc, quantity)
  ELSE Released(doc, quantity)

\* The first save of the current item.  A save that throws ends the handler
\* (the catch around the loop).
EventSave(st, pr) ==
  LET it == pr.items[pr.idx]
      r == Save(st, pr.doc, EventChange(pr.kind, pr.doc, it.quantity), <<>>)
  IN  [store |-> r.store,
       proc |-> IF r.ok THEN [pr EXCEPT !.doc = r.doc, !.pc = "move"] ELSE IdleProc]

\* The movement each handler records for the current item.
EventMovementOf(kind, doc, quantity) ==
  IF kind = "order.placed" THEN Movement("out", quantity, "order_reservation", "user1")
  ELSE IF kind = "order.confirmed" THEN Movement("out", quantity, "order_confirmed", "user1")
  ELSE Movement("adjustment", doc.quantity, "order_cancelled", "system")

\* The addStockMovement call of the current item and its save.
EventMove(st, pr, t) ==
  LET it == pr.items[pr.idx]
      m == EventMovementOf(pr.kind, pr.doc, it.quantity)
      r == Save(st, pr.doc, addStockMovement(pr.doc, m.type, m.quantity, t), <<m>>)
  IN  [store |-> r.store, proc |-> IF r.ok THEN NextItem(pr) ELSE IdleProc]

\* One step of a handler.
EventStep(st, pr, t) ==
  IF pr.pc = "read" THEN [store |-> st, proc |-> EventRead(st, pr)]
  ELSE IF pr.pc = "save" THEN EventSave(st, pr)
  ELSE EventMove(st, pr, t)

\* A handler run from start to end with nothing interleaved.
RECURSIVE RunHandler(_, _, _)
RunHandler(st, pr, t) ==
  IF pr.op # "event" THEN st
  ELSE LET r == EventStep(st, pr, t) IN RunHandler(r.store, r.proc, t)

handleOrderEvents(st, ev, t) == RunHandler(st, HandlerOf(ev), t)

\* The transport delivers an order event of one of the kinds.
DeliverOrderEventOf(p, M, kinds) ==
  /\ procs[p].op = "idle"
  /\ \E ev \in OrderEvents(M) :
       /\ ev.type \in kinds
       /\ procs' = [procs EXCEPT ![p] = HandlerOf(ev)]
  /\ response' = NoResponse
  /\ UNCHANGED <<store, now, consumer>>

\* The transport delivers an order event.
DeliverOrderEvent(p, M) == DeliverOrderEventOf(p, M, OrderKinds)

OrderRead(p) ==
  /\ procs[p].op = "event" /\ procs[p].pc = "read"
  /\ procs' = [procs EXCEPT ![p] = EventRead(store, procs[p])]
  /\ response' = NoResponse
  /\ UNCHANGED <<store, now, consumer>>

OrderSave(p) ==
  /\ procs[p].op = "event" /\ procs[p].pc = "save"
  /\ store' = EventSave(store, procs[p]).store
  /\ procs' = [procs EXCEPT ![p] = EventSave(store, procs[p]).proc]
  /\ response' = NoResponse
  /\ UNCHANGED <<now, consumer>>

OrderMove(p) ==
  /\ procs[p].op = "event" /\ procs[p].pc = "move"
  /\ store' = EventMove(store, procs[p], now).store
  /\ procs' = [procs EXCEPT ![p] = EventMove(store, procs[p], now).proc]
  /\ response' = NoResponse
  /\ UNCHANGED <<now, consumer>>

\* ---------------------------------------------- order-events consumer
\* A producer publishes an order event to the topic.
PublishOrderEvent ==
  /\ Len(consumer.topic) < MaxTopic
  /\ \E ev \in OrderEvents({1}) :
       consumer' = [consumer EXCEPT !.topic = Append(@, ev)]
  /\ response' = NoResponse
  /\ UNCHANGED <<store, now, procs>>

\* A consumer that takes the next message without awaiting the handler.
NeverAwaits(c) == TRUE

\* consumer.run: eachMessage is not called again while the handler of the
\* message before is awaited.
ConsumerFree(c) == ~c.inflight

\* eachMessage: the first uncommitted message is parsed and handed to the
\* handler, which eachMessage awaits.
eachMessage(p) ==
  /\ ConsumerFree(consumer) /\ consumer.topic # <<>>
  /\ procs[p].op = "idle"
  /\ procs' = [procs EXCEPT ![p] = HandlerOf(Head(consumer.topic))]
  /\ consumer' = [consumer EXCEPT !.inflight = TRUE, !.outcome = "none"]
  /\ response' = NoResponse
  /\ UNCHANGED <<store, now>>

\* No try/catch: the error leaves handleOrderEvents.
NoCatch(error) == "threw"

\* The catch of handleOrderEvents, and of the handler it called: the error is
\* logged and the handler returns.
Catch(error) == "caught"

\* An awaited call of the handler (findOne, save, publishEvent) throws: the
\* database or the broker cannot be reached.
OrderThrows(p) ==
  /\ procs[p].op = "event"
  /\ procs' = [procs EXCEPT ![p] = IdleProc]
  /\ consumer' = [consumer EXCEPT !.outcome = Catch("MongoNetworkError")]
  /\ response' = NoResponse
  /\ UNCHANGED <<store, now>>

\* eachMessage settles: the handler has returned, or eachMessage's own catch
\* has swallowed what it threw; the message's offset is committed.
eachMessageSettled ==
  /\ consumer.inflight
  /\ \A p \in Procs : procs[p].op # "event"
  /\ consumer' = [consumer EXCEPT !.topic = Tail(@), !.inflight = FALSE]
  /\ response' = NoResponse
  /\ UNCHANGED <<store, now, procs>>

\* ------------------------------------------------------ specifications
\* The ledger of one medicine: every request and event, one at a time.
Next ==
  \/ Tick
  \/ StartCreate(1, {1})
  \/ CreateCheck(1)
  \/ CreateInsert(1)
  \/ updateInventoryItem(1)
  \/ StartMovement(1)
  \/ MovementRead(1)
  \/ MovementSave(1)
  \/ StartAlertSettings(1)
  \/ AlertSettingsRead(1)
  \/ AlertSettingsSave(1)
  \/ StartBulkUpdate(1, {1})
  \/ BulkRead(1)
  \/ BulkSave(1)
  \/ DeliverOrderEvent(1, {1})
  \/ OrderRead(1)
  \/ OrderSave(1)
  \/ OrderMove(1)

Spec == Init /\ [][Next]_vars

\* A shop with two medicines: lots are created, bulk-updated and driven by
\* order events, one request or event at a time.
NextShop ==
  \/ Tick
  \/ StartCreate(1, Medicines)
  \/ CreateCheck(1)
  \/ CreateInsert(1)
  \/ StartBulkUpdate(1, Medicines)
  \/ BulkRead(1)
  \/ BulkSave(1)
  \/ DeliverOrderEvent(1, Medicines)
  \/ OrderRead(1)
  \/ OrderSave(1)
  \/ OrderMove(1)

SpecShop == Init /\ [][NextShop]_vars

\* Two concurrent requests on the lots of one medicine: their reads and
\* writes interleave.
NextRace ==
  \/ Tick
  \/ \E p \in Procs : StartCreate(p, {1})
  \/ \E p \in Procs : CreateCheck(p)
  \/ \E p \in Procs : CreateInsert(p)
  \/ \E p \in Procs : StartMovement(p)
  \/ \E p \in Procs : MovementRead(p)
  \/ \E p \in Procs : MovementSave(p)

SpecRace == Init /\ [][NextRace]_vars

\* One lot and two concurrent movement requests on it, with room in the trail
\* for both movements.
NextMoves ==
  \/ StartCreate(1, {1})
  \/ CreateCheck(1)
  \/ CreateInsert(1)
  \/ \E p \in Procs : StartMovement(p)
  \/ \E p \in Procs : MovementReadWithin(p, MaxRaceMoves)
  \/ \E p \in Procs : MovementSave(p)

SpecMoves == Init /\ [][NextMoves]_vars

\* One lot, and two of placed-order handlers and movement requests running
\* on it at the same time.
NextReserve ==
  \/ StartCreate(1, {1})
  \/ CreateCheck(1)
  \/ CreateInsert(1)
  \/ \E p \in Procs : DeliverOrderEventOf(p, {1}, {"order.placed"})
  \/ \E p \in Procs : OrderRead(p)
  \/ \E p \in Procs : OrderSave(p)
  \/ \E p \in Procs : OrderMove(p)
  \/ \E p \in Procs : StartMovement(p)
  \/ \E p \in Procs : MovementRead(p)
  \/ \E p \in Procs : MovementSave(p)

SpecReserve == Init /\ [][NextReserve]_vars

\* One lot and the order-events consumer: events are published to the topic,
\* taken by eachMessage and handled; a call of a handler may throw.
NextConsumer ==
  \/ StartCreate(1, {1})
  \/ CreateCheck(1)
  \/ CreateInsert(1)
  \/ PublishOrderEvent
  \/ \E p \in Procs : eachMessage(p)
  \/ \E p \in Procs : OrderRead(p)
  \/ \E p \in Procs : OrderSave(p)
  \/ \E p \in Procs : OrderMove(p)
  \/ \E p \in Procs : OrderThrows(p)
  \/ eachMessageSettled

SpecConsumer == Init /\ [][NextConsumer]_vars

\* ================================================================ claims
\* A step of process p.
StepOf(p) == procs'[p] # procs[p]

\* The stored lot is consistent: available is what the pre-save hook makes it.
Derived(lot) ==
  lot.availableQuantity = Max(0, lot.quantity - lot.reservedQuantity)

\* The single-item order events of one kind.
SingleItemEvents(kind) ==
  {OrderEvent(kind, <<it>>) : it \in ItemInputs(Medicines)}

\* C1: in every persisted state each lot's availableQuantity equals
\* max(0, quantity - reservedQuantity).
C1_AvailableIsDerived ==
  \A i \in 1 .. Len(store) : Derived(store[i])

\* C2: persisted quantity and reservedQuantity are never negative, and an out
\* movement larger than on-hand or a confirmed event larger than the
\* reservation is rejected: its save writes nothing.
C2_Rejected ==
  \A p \in Procs :
    LET pr == procs[p] IN
      /\ (/\ pr.op = "movement" /\ pr.pc = "save" /\ pr.kind = "out"
          /\ pr.qty > pr.doc.quantity /\ StepOf(p)) => store' = store
      /\ (/\ pr.op = "event" /\ pr.pc = "save" /\ pr.kind = "order.confirmed"
          /\ pr.items[pr.idx].quantity > pr.doc.reservedQuantity /\ StepOf(p))
           => store' = store

C2_NeverNegative ==
  /\ [](\A i \in 1 .. Len(store) :
          store[i].quantity >= 0 /\ store[i].reservedQuantity >= 0)
  /\ [][C2_Rejected]_vars

\* An out movement on an empty lot has just been refused.
C2_Witness ==
  /\ "Quantity cannot be negative" \in response.errors
  /\ Len(store) >= 1 /\ store[1].quantity = 0

\* C3: handling the same placed event a second time leaves reservedQuantity
\* as the first handling left it.
C3_ReplayReservesOnce ==
  \A ev \in SingleItemEvents("order.placed") :
    LET id == findOne(store, 1, ev.items[1].medicineId, ev.items[1].batchNumber)
        once == handleOrderEvents(store, ev, now)
        twice == handleOrderEvents(once, ev, now)
    IN  id # 0 => twice[id].reservedQuantity = once[id].reservedQuantity

\* C4: a placed event for q units on a consistent lot with Q - R >= q leaves
\* quantity Q, reserved R + q, available Q - R - q and the status the alert
\* evaluation gives for that state.
C4_PlacedReserves ==
  \A ev \in SingleItemEvents("order.placed") :
    LET it == ev.items[1]
        id == findOne(store, 1, it.medicineId, it.batchNumber)
        after == handleOrderEvents(store, ev, now)
    IN  (/\ id # 0 /\ Derived(store[id])
         /\ store[id].status \in {"active", "low-stock", "expired"}
         /\ store[id].quantity - store[id].reservedQuantity >= it.quantity)
        => /\ after[id].quantity = store[id].quantity
           /\ after[id].reservedQuantity = store[id].reservedQuantity + it.quantity
           /\ after[id].availableQuantity =
                store[id].quantity - store[id].reservedQuantity - it.quantity
           /\ after[id].status = MovedStatus(DocOf(after, id), now)

\* C5: placed then confirmed for the same line item leaves quantity Q - q,
\* reserved as before the placed event, available derived, and two more
\* movement entries.
C5_PlacedThenConfirmed ==
  \A it \in ItemInputs(Medicines) :
    LET id == findOne(store, 1, it.medicineId, it.batchNumber)
        placed == handleOrderEvents(store, OrderEvent("order.placed", <<it>>), now)
        after == handleOrderEvents(placed, OrderEvent("order.confirmed", <<it>>), now)
    IN  (/\ id # 0 /\ Derived(store[id])
         /\ store[id].quantity - store[id].reservedQuantity >= it.quantity)
        => /\ after[id].quantity = store[id].quantity - it.quantity
           /\ after[id].reservedQuantity = store[id].reservedQuantity
           /\ Derived(after[id])
           /\ Len(after[id].stockMovements) = Len(store[id].stockMovements) + 2

\* C6: a placed item asking for more than the lot's availableQuantity is
\* skipped: nothing is written and the handler goes on to its next item.
C6_Skipped ==
  \A p \in Procs :
    LET pr == procs[p]
        it == pr.items[pr.idx]
        id == findOne(store, 1, it.medicineId, it.batchNumber)
    IN  (/\ pr.op = "event" /\ pr.pc = "read" /\ pr.kind = "order.placed"
         /\ id # 0 /\ store[id].availableQuantity < it.quantity /\ StepOf(p))
        => store' = store /\ procs'[p] = NextItem(pr)

C6_InsufficientPlacedSkipped == [][C6_Skipped]_vars

\* The first item of a placed event was refused on a lot that could have
\* been reserved in part, and the handler is at its second item.
C6_Witness ==
  \E p \in Procs :
    /\ procs[p].op = "event" /\ procs[p].kind = "order.placed"
    /\ procs[p].idx = 2 /\ procs[p].pc = "read"
    /\ LET it == procs[p].items[1]
           id == findOne(store, 1, it.medicineId, it.batchNumber)
       IN  /\ id # 0
           /\ store[id].availableQuantity > 0
           /\ store[id].availableQuantity < it.quantity
           /\ store[id].reservedQuantity = 0

\* C7: a cancelled event releases every item's reservation: each lot it names
\* ends with reserved max(0, R - q) and its quantity unchanged.
C7_CancelledReleases ==
  \A ev \in OrderEvents(Medicines) :
    ev.type = "order.cancelled" =>
      \A i \in 1 .. Len(ev.items) :
        LET it == ev.items[i]
            id == findOne(store, 1, it.medicineId, it.batchNumber)
            after == handleOrderEvents(store, ev, now)
        IN  id # 0 =>
              /\ after[id].reservedQuantity =
                   Max(0, store[id].reservedQuantity - it.quantity)
              /\ after[id].quantity = store[id].quantity

\* C8 (as amended): an out movement larger than the on-hand quantity the
\* request read is refused with a validation error, Quantity cannot be
\* negative, and the stored lot is unchanged.
C8_Refused ==
  \A p \in Procs :
    LET pr == procs[p] IN
      (/\ pr.op = "movement" /\ pr.pc = "save" /\ pr.kind = "out"
       /\ pr.qty > pr.doc.quantity /\ StepOf(p))
      => /\ response'.status = 400
         /\ response'.message = "Validation Error"
         /\ "Quantity cannot be negative" \in response'.errors
         /\ store' = store

C8_InsufficientStock ==
  \A p \in Procs :
    LET pr == procs[p] IN
      (/\ pr.op = "movement" /\ pr.pc = "save" /\ pr.kind = "out"
       /\ pr.qty > pr.doc.quantity /\ StepOf(p))
      => /\ response'.message = "InsufficientStock"
         /\ store' = store

C9_MovementArithmetic ==
  \A i \in 1 .. Len(store), q \in 1 .. MaxItemQty :
    LET moved(ty) == addStockMovement(DocOf(store, i), ty, q, now).quantity IN
      /\ moved("in") = store[i].quantity + q
      /\ moved("out") = store[i].quantity - q
      /\ moved("adjustment") = q
      /\ moved("return") = store[i].quantity + q

\* C10: at most one lot exists per (shopId, medicineId, batchNumber), and a
\* Create that meets an existing triple, at its check or at its insert, is
\* answered 400 already exists and writes nothing.
C10_Conflict ==
  \A p \in Procs :
    LET pr == procs[p]
        id == findOne(store, pr.doc.shopId, pr.doc.medicineId, pr.doc.batchNumber)
    IN  (pr.op = "create" /\ id # 0 /\ StepOf(p))
        => /\ store' = store
           /\ response'.status = 400
           /\ response'.message \in {"already exists for this medicine",
                                     "shopId already exists"}

C10_OneLotPerTriple ==
  /\ [](\A i, j \in 1 .. Len(store) :
          (/\ store[i].shopId = store[j].shopId
           /\ store[i].medicineId = store[j].medicineId
           /\ store[i].batchNumber = store[j].batchNumber) => i = j)
  /\ [][C10_Conflict]_vars

\* A Create passed its check and the other Create has meanwhile inserted the
\* same triple.
C10_Witness ==
  \E p \in Procs :
    /\ procs[p].op = "create" /\ procs[p].pc = "insert"
    /\ findOne(store, procs[p].doc.shopId, procs[p].doc.medicineId,
               procs[p].doc.batchNumber) # 0

\* The status the alert evaluation gives a lot at time t: expiry first, then
\* an empty lot, then the low-stock threshold.
AlertStatus(lot, t) ==
  IF t > lot.expiryDate THEN "expired"
  ELSE IF lot.quantity = 0 THEN "out-of-stock"
  ELSE IF lot.availableQuantity <= lot.lowStockThreshold THEN "low-stock"
  ELSE "active"

\* The trail new is the trail old with entries appended.
Extends(new, old) ==
  Len(new) >= Len(old) /\ SubSeq(new, 1, Len(old)) = old

\* C11: a successful Create stores a lot with reserved 0, available equal to
\* its quantity, the status the alert evaluation gives it, and exactly one
\* movement, of type in with reason initial-stock.
C11_Created ==
  response'.status = 201 =>
    /\ Len(store') = Len(store) + 1
    /\ LET lot == store'[Len(store')] IN
         /\ lot.reservedQuantity = 0
         /\ lot.availableQuantity = lot.quantity
         /\ lot.status = AlertStatus(lot, now)
         /\ Len(lot.stockMovements) = 1
         /\ lot.stockMovements[1].type = "in"
         /\ lot.stockMovements[1].reason = "initial-stock"

C11_CreateInitialises == [][C11_Created]_vars

\* C12: a movement that leaves the on-hand quantity at zero or above persists
\* the status of the fixed precedence: expired, else out-of-stock, else
\* low-stock, else active.
C12_Persisted ==
  \A p \in Procs :
    LET pr == procs[p] IN
      (/\ pr.op = "movement" /\ pr.pc = "save" /\ StepOf(p)
       /\ MovedQuantity(pr.kind, pr.doc.quantity, pr.qty) >= 0)
      => LET lot == store'[pr.doc.id] IN
           /\ lot.quantity = MovedQuantity(pr.kind, pr.doc.quantity, pr.qty)
           /\ lot.status = AlertStatus(lot, now)

C12_StatusPrecedencePersisted == [][C12_Persisted]_vars

\* C13: a write to an existing lot leaves it, unless damaged or returned, with
\* the status the alert evaluation gives its persisted state.
C13_Evaluated ==
  \A i \in 1 .. Len(store) :
    (store'[i] # store[i] /\ store'[i].status \notin {"damaged", "returned"})
    => store'[i].status = AlertStatus(store'[i], now)

C13_StatusIsEvaluated == [][C13_Evaluated]_vars

\* C14: an in movement of a lot that only in movements have touched adds its
\* amount to the persisted quantity and its entry to the trail, whatever the
\* other request did between this request's read and its write.
C14_InAdds ==
  \A p \in Procs :
    LET pr == procs[p]
        id == pr.doc.id
    IN  (/\ pr.op = "movement" /\ pr.pc = "save" /\ pr.kind = "in" /\ StepOf(p)
         /\ \A k \in 1 .. Len(store[id].stockMovements) :
              store[id].stockMovements[k].type = "in")
        => /\ store'[id].quantity = store[id].quantity + pr.qty
           /\ store'[id].stockMovements =
                Append(store[id].stockMovements,
                       Movement("in", pr.qty, pr.reason, "user1"))

C14_NoLostUpdate == [][C14_InAdds]_vars

\* C15: a write of a movement request or of an order handler that changes a
\* lot's quantity or reservedQuantity carries, in the same write, the movement
\* entry and the recomputed status.
C15_OneWrite ==
  \A p \in Procs :
    LET pr == procs[p]
        id == pr.doc.id
    IN  (/\ pr.op \in {"movement", "event"} /\ pr.pc \in {"save", "move"} /\ StepOf(p)
         /\ \/ store'[id].quantity # store[id].quantity
            \/ store'[id].reservedQuantity # store[id].reservedQuantity)
        => /\ Len(store'[id].stockMovements) = Len(store[id].stockMovements) + 1
           /\ store'[id].status = AlertStatus(store'[id], now)

C15_MutationIsOneWrite == [][C15_OneWrite]_vars

\* C16: the movement trail of a lot only grows by appending: every step leaves
\* the entries already written in place.
C16_Kept ==
  \A i \in 1 .. Len(store) : Extends(store'[i].stockMovements, store[i].stockMovements)

C16_TrailAppendOnly == [][C16_Kept]_vars

\* C17: every step that changes a lot's quantity or reservedQuantity appends a
\* movement entry to its trail.
C17_Recorded ==
  \A i \in 1 .. Len(store) :
    (\/ store'[i].quantity # store[i].quantity
     \/ store'[i].reservedQuantity # store[i].reservedQuantity)
    => /\ Len(store'[i].stockMovements) = Len(store[i].stockMovements) + 1
       /\ Extends(store'[i].stockMovements, store[i].stockMovements)

C17_EveryChangeRecorded == [][C17_Recorded]_vars

\* C18: a confirmed event for more units than the lot has reserved (none
\* included) leaves the lot's quantity and reservedQuantity as they were, and
\* not negative.
C18_UnreservedConfirmedSkipped ==
  \A ev \in SingleItemEvents("order.confirmed") :
    LET it == ev.items[1]
        id == findOne(store, 1, it.medicineId, it.batchNumber)
        after == handleOrderEvents(store, ev, now)
    IN  (id # 0 /\ store[id].reservedQuantity < it.quantity)
        => /\ after[id].quantity = store[id].quantity
           /\ after[id].reservedQuantity = store[id].reservedQuantity
           /\ after[id].quantity >= 0 /\ after[id].reservedQuantity >= 0

\* The confirmed handler has read a lot that holds the units it is to deduct
\* and a reservation, smaller than the confirmed quantity, and is at its save.
C18_Witness ==
  \E p \in Procs :
    LET pr == procs[p] IN
      /\ pr.op = "event" /\ pr.kind = "order.confirmed" /\ pr.pc = "save"
      /\ pr.doc.reservedQuantity > 0
      /\ pr.doc.reservedQuantity < pr.items[pr.idx].quantity
      /\ pr.doc.quantity >= pr.items[pr.idx].quantity
      /\ store[pr.doc.id].reservedQuantity = pr.doc.reservedQuantity

\* C19: every item of a placed event is handled on its own: its lot is
\* reserved when its available stock suffices and left alone when it does
\* not, whatever happened to the items before it.
C19_PlacedItemsIndependent ==
  \A ev \in OrderEvents(Medicines) :
    ev.type = "order.placed" =>
      LET after == handleOrderEvents(store, ev, now) IN
        \A i \in 1 .. Len(ev.items) :
          LET it == ev.items[i]
              id == findOne(store, 1, it.medicineId, it.batchNumber)
          IN  id # 0 =>
                after[id].reservedQuantity =
                  IF store[id].availableQuantity >= it.quantity
                  THEN store[id].reservedQuantity + it.quantity
                  ELSE store[id].reservedQuantity

\* C20: handling the same confirmed or cancelled event a second time leaves
\* quantity and reservedQuantity as the first handling left them.
C20_ReplayAppliesOnce ==
  \A kind \in {"order.confirmed", "order.cancelled"} :
    \A ev \in SingleItemEvents(kind) :
      LET id == findOne(store, 1, ev.items[1].medicineId, ev.items[1].batchNumber)
          once == handleOrderEvents(store, ev, now)
          twice == handleOrderEvents(once, ev, now)
      IN  id # 0 => /\ twice[id].quantity = once[id].quantity
                    /\ twice[id].reservedQuantity = once[id].reservedQuantity

\* C23: a delivered event writes nothing: every step of its handler, and the
\* handler run as a whole, leaves every lot as it was.
C23_NoWrite ==
  \A p \in Procs :
    (procs[p].op = "event" /\ procs[p].kind = "order.delivered" /\ StepOf(p))
    => store' = store

C23_DeliveredWritesNothing ==
  /\ [](\A ev \in SingleItemEvents("order.delivered") :
          handleOrderEvents(store, ev, now) = store)
  /\ [][C23_NoWrite]_vars

\* The delivered handler has dealt with the first item, whose lot exists and
\* holds a reservation, and is at its second item.
C23_Witness ==
  \E p \in Procs :
    /\ procs[p].op = "event" /\ procs[p].kind = "order.delivered" /\ procs[p].idx = 2
    /\ LET it == procs[p].items[1]
           id == findOne(store, 1, it.medicineId, it.batchNumber)
       IN  id # 0 /\ store[id].reservedQuantity > 0

\* C24: a write of a movement request or of an order handler to a lot whose
\* status is damaged or returned does not make it active or low-stock.
C24_Kept ==
  \A p \in Procs :
    LET pr == procs[p]
        id == pr.doc.id
    IN  (/\ pr.op \in {"movement", "event"} /\ pr.pc \in {"save", "move"} /\ StepOf(p)
         /\ store[id].status \in {"damaged", "returned"})
        => store'[id].status \notin {"active", "low-stock"}

C24_DamagedStaysDamaged == [][C24_Kept]_vars

\* C27: the low-stock listing of the shop is exactly the shop's lots whose
\* availableQuantity is at or below their low-stock threshold.
C27_LowStockListing ==
  findLowStockItems(store, 1) =
    {i \in 1 .. Len(store) :
       store[i].shopId = 1 /\ store[i].availableQuantity <= store[i].lowStockThreshold}

\* C28: on a lot with no reservation, after order 1 has placed q units, a
\* confirmed or cancelled event of order 2, which never reserved, leaves the
\* lot's reservedQuantity at the q units of order 1.
C28_ReservedIsOutstanding ==
  \A kind \in {"order.confirmed", "order.cancelled"} :
    \A it \in ItemInputs(Medicines) :
      LET id == findOne(store, 1, it.medicineId, it.batchNumber)
          placed == handleOrderEvents(store,
                      [type |-> "order.placed", items |-> <<it>>, orderId |-> 1], now)
          after == handleOrderEvents(placed,
                      [type |-> kind, items |-> <<it>>, orderId |-> 2], now)
      IN  (/\ id # 0 /\ Derived(store[id]) /\ store[id].reservedQuantity = 0
           /\ store[id].availableQuantity >= it.quantity)
          => /\ placed[id].reservedQuantity = it.quantity
             /\ after[id].reservedQuantity = it.quantity

\* C30: a Create whose triple is not in the collection, and whose document is
\* valid, succeeds and adds the lot.
C30_Created ==
  \A p \in Procs :
    LET pr == procs[p] IN
      (/\ pr.op = "create" /\ pr.pc = "insert" /\ StepOf(p)
       /\ findOne(store, pr.doc.shopId, pr.doc.medicineId, pr.doc.batchNumber) = 0
       /\ DocErrors(pr.doc) = {})
      => /\ response'.status = 201
         /\ Len(store') = Len(store) + 1

C30_NewBatchCreated == [][C30_Created]_vars

\* The positions a list of results holds.
Positions(results) == {results[k] : k \in 1 .. Len(results)}

\* C25: every step of a bulk update records its item once; a failed item (no
\* lot, or a save that is rejected) leaves the store unchanged and the loop
\* goes on to the next item; a saved item has its quantity applied; and the
\* response lists every item in exactly one of successful and failed.
C25_PerItem ==
  \A p \in Procs :
    LET pr == procs[p]
        it == pr.items[pr.idx]
        id == findOne(store, 1, it.medicineId, it.batchNumber)
        fails == \/ pr.pc = "read" /\ id = 0
                 \/ pr.pc = "save" /\ it.status \notin StatusEnum \cup {""}
        last == pr.idx = Len(pr.items)
        done == IF last THEN response'.data ELSE procs'[p]
    IN  (pr.op = "bulk" /\ StepOf(p) /\ (fails \/ pr.pc = "save"))
        => /\ fails => /\ store' = store
                       /\ done.failed = Append(pr.failed, pr.idx)
                       /\ done.successful = pr.successful
           /\ ~fails => /\ store'[pr.doc.id].quantity = it.quantity
                        /\ done.successful = Append(pr.successful, pr.idx)
                        /\ done.failed = pr.failed
           /\ ~last => procs'[p].op = "bulk" /\ procs'[p].idx = pr.idx + 1
           /\ last =>
                /\ response'.status = 200
                /\ Positions(done.successful) \cup Positions(done.failed)
                     = 1 .. Len(pr.items)
                /\ Positions(done.successful) \cap Positions(done.failed) = {}
                /\ Len(done.successful) + Len(done.failed) = Len(pr.items)

C25_BulkPerItemResult == [][C25_PerItem]_vars

\* A bulk update of two items has answered, in a shop that holds a lot of
\* each medicine: its first item failed and its second item was applied.
C25_Witness ==
  /\ response.message = "Bulk update completed"
  /\ response.data.failed = <<1>>
  /\ response.data.successful = <<2>>
  /\ Len(store) = 2

\* C29: a placed handler's reservation is persisted only while the stock the
\* store holds available covers it, and it leaves the lot's reservedQuantity
\* at or below its on-hand quantity, whatever ran between the handler's read
\* and its write.
C29_Covered ==
  \A p \in Procs :
    LET pr == procs[p]
        id == pr.doc.id
    IN  (/\ pr.op = "event" /\ pr.kind = "order.placed" /\ pr.pc = "save"
         /\ StepOf(p) /\ store' # store)
        => /\ store[id].availableQuantity >= pr.items[pr.idx].quantity
           /\ store'[id].reservedQuantity <= store'[id].quantity

C29_ReservationsCovered == [][C29_Covered]_vars

\* The handlers in progress.
Handlers == {p \in Procs : procs[p].op = "event"}

\* C21: a message whose handling failed with a thrown database error is not
\* committed when eachMessage settles: it stays in the topic to be redelivered.
C21_Unacked ==
  (consumer.inflight /\ ~consumer'.inflight /\ consumer.outcome = "caught")
  => consumer'.topic = consumer.topic

C21_FailedEventRedelivered == [][C21_Unacked]_vars

C26_Taken ==
  \A p \in Procs :
    (procs[p].op # "event" /\ procs'[p].op = "event")
    => Handlers = {} /\ procs'[p] = HandlerOf(Head(consumer.topic))

====
